---- MODULE Spec2Model ----
(***************************************************************************)
(* Model of the choria provisioner's per-node RPC steps (package host:     *)
(* rpcDo, restart, configure, fetchJWT, fetchInventory, fetchCSR) driving   *)
(* one node record through a provisioning attempt.                          *)
(*                                                                          *)
(* The order of the steps within an attempt, the helper step and the reaping *)
(* of the record follow the provisioner's specification (sections 3, 4.2):   *)
(* the attempt's driver is not part of the sources modelled here.            *)
(*                                                                          *)
(* The fabric client (prov.Do), the node and the helper are environment:    *)
(* their outcomes are drawn from small sets.  One rpcDo call is one atomic   *)
(* step of the owning worker; pause and cancellation happen between calls,  *)
(* cancellation also while a call waits for its reply.                      *)
(*                                                                          *)
(* SpecAgent models the node's choria_provision agent (package agent:       *)
(* gencsr, configure, restart, reprovision, release_update).  Each handler  *)
(* runs under the package mutex and is one step; the configuration file is  *)
(* the only file kept as state, every other write is recorded per step.     *)
(*                                                                          *)
(* SpecPool models the work queue and its workers after section 4.6 of the  *)
(* provisioner's specification.                                             *)
(*                                                                          *)
(* SpecFetch applies the two fetch steps to records that may already be     *)
(* populated; SpecDeliver lets the node handle the configure request the    *)
(* orchestrator publishes; SpecConfigure puts the configure step next to a  *)
(* node that receives configure requests from anyone; SpecMutex is the      *)
(* agent with mu.Lock() and mu.Unlock() as steps of the goroutines, under   *)
(* the fairness of the mutex.                                               *)
(***************************************************************************)
EXTENDS Integers, Sequences, FiniteSets, TLC

\* ------------------------------------------------------------------ bounds
\* most replies the fabric delivers to one call
MaxReplies == 2

\* --------------------------------------------------------------- constants
\* number of tries of the retrying steps (for try := 1; try <= 5; try++)
MaxTries == 5
\* splay the provisioner asks for when restarting a node
RestartSplay == 1

Identity == "n1"
OtherSender == "n2"
Senders == {Identity, OtherSender}

\* mcorpc status codes of a reply: OK and a failed one
OK == "OK"
Aborted == "Aborted"
Statuses == {OK, Aborted}

Tokens == {"", "t"}

\* configuration keys, in the byte order json.Marshal sorts them
Keys == {"identity", "provision"}
KeyRank == [k \in Keys |-> IF k = "identity" THEN 1 ELSE 2]
\* the values the helper gives each key
Values == [k \in Keys |-> IF k = "identity" THEN {"n1.final"} ELSE {"false"}]

NoCSR == [set |-> FALSE, csr |-> "", ssldir |-> ""]

VARIABLES
    paused,     \* h.cfg.Paused()
    cancelled,  \* ctx.Err() != nil for the attempt's context
    token,      \* h.token
    features,   \* [pki]: whether the attempt runs the CSR step
    host,       \* the node record: Metadata, rawJWT, CSR, config, ca, cert
    pc,         \* the step the attempt is at
    try,        \* loop variable of fetchInventory / fetchJWT
    sent,       \* requests the current/last step published to the fabric
    stepGate,   \* "none": the step has not called rpcDo; "paused": every call
                \* it made found the gate paused; "open": some call did not
    lastStep,   \* name of the step that returned last
    stepErr,    \* what it returned
    invOk,      \* fetchInventory returned nil in this attempt
    call,       \* observation of the last rpcDo call
    \* the node: the server process running the choria_provision agent
    ProvisionToken, \* build.ProvisionToken
    ProvisionMode,  \* agent.Choria.ProvisionMode() of the running process
    Config,         \* agent.Config: ConfigFile, SSLDir, LogFile, registration
    disk,           \* the file at the configuration path
    pending,        \* restart goroutines started and not yet run
    req,            \* the action request the last step handled
    reply,          \* its reply
    wrote,          \* the files it wrote, in order, with their new content
    started,        \* the splay of each restart goroutine it started
    events,         \* the lifecycle events it published
    \* the work queue and the worker pool
    inflight,   \* the in-flight set of identities
    work,       \* the work channel
    running,    \* the identity each worker runs the state machine for
    enqueued,   \* the last call of the enqueue function and what it did
    \* the node's goroutines and the package mutex
    mu,         \* who holds mu: nobody, a handler goroutine, the restart routine
    handlers,   \* each handler goroutine: where it is and the action it serves
    exec        \* what the step did to the process: nothing, exec, failed exec

hostVars == <<paused, cancelled, token, features, host, pc, try, sent, stepGate,
              lastStep, stepErr, invOk, call>>

nodeVars == <<ProvisionToken, ProvisionMode, Config, disk, pending,
              req, reply, wrote, started, events>>

poolVars == <<inflight, work, running, enqueued>>

lockVars == <<mu, handlers, exec>>

vars == <<hostVars, nodeVars, poolVars, lockVars>>

\* ------------------------------------------------------------ JSON helpers
\* the maps from a subset of Keys to their values: map[string]string
Configs ==
    UNION {{m \in [D -> UNION {Values[k] : k \in Keys}] :
                \A k \in D : m[k] \in Values[k]} : D \in SUBSET Keys}

RECURSIVE SortedKeys(_)
SortedKeys(D) ==
    IF D = {} THEN <<>>
    ELSE LET k == CHOOSE x \in D : \A y \in D : KeyRank[x] <= KeyRank[y]
         IN <<k>> \o SortedKeys(D \ {k})

\* json.Marshal of a map[string]string: the members in key order
JsonMarshal(m) ==
    LET ks == SortedKeys(DOMAIN m)
    IN [i \in 1..Len(ks) |-> <<ks[i], m[ks[i]]>>]

\* json.Unmarshal into a map[string]string
JsonUnmarshal(s) ==
    [k \in {s[i][1] : i \in 1..Len(s)} |->
        LET i == CHOOSE j \in 1..Len(s) :
                    s[j][1] = k /\ \A l \in 1..Len(s) : s[l][1] = k => l <= j
        IN s[i][2]]

\* ----------------------------------------------------------------- replies
BlankReply(sender, status) ==
    [sender |-> sender, status |-> status, valid |-> TRUE,
     raw |-> "", jwt |-> "", csr |-> "", ssldir |-> ""]

\* the replies a call of the given action can receive
ReplySet(action) ==
    {BlankReply(s, Aborted) : s \in Senders} \cup
    CASE action = "inventory" ->
           {[BlankReply(s, OK) EXCEPT !.raw = "inv"] : s \in Senders}
      [] action = "jwt" ->
           {[BlankReply(s, OK) EXCEPT !.jwt = "jwt"] : s \in Senders}
           \cup {[BlankReply(Identity, OK) EXCEPT !.jwt = ""],
                 [BlankReply(Identity, OK) EXCEPT !.valid = FALSE]}
      [] action = "gencsr" ->
           {[BlankReply(s, OK) EXCEPT !.csr = "CSR", !.ssldir = "/ssl"] : s \in Senders}
           \cup {[BlankReply(Identity, OK) EXCEPT !.valid = FALSE]}
      [] OTHER ->
           {[BlankReply(s, OK) EXCEPT !.raw = "msg"] : s \in Senders}

ReplySeqs(action) ==
    UNION {[1..n -> ReplySet(action)] : n \in 0..MaxReplies}

\* outcomes of prov.Do other than its replies
DoErrs == {"none", "transport"}

\* ------------------------------------------------------------------- rpcDo
\* a handler that does not look at the sender
HandlerPassesAnySender(r) == r.status = OK

\* the reply handler rpcDo installs: which replies reach the step's callback
HandlerPasses(r) == r.status = OK /\ r.sender = Identity

\* a count check that only rejects the absence of replies
WrongCountZero(n) == n = 0

\* the check of result.Stats().ResponsesCount()
WrongCount(n) == n # 1

\* rpcDo without the pause gate
rpcDoUngated(isPaused, ddlOk, clientOk, doErr, replies) ==
    IF ~ddlOk THEN
        [err |-> "rpc", published |-> FALSE, delivered |-> <<>>, ctr |-> 0]
    ELSE IF ~clientOk THEN
        [err |-> "rpc", published |-> FALSE, delivered |-> <<>>, ctr |-> 1]
    ELSE
        LET failed == SelectSeq(replies, LAMBDA r : r.status # OK)
            res    == IF doErr # "none" THEN "rpc"
                      ELSE IF WrongCount(Len(replies)) THEN "rpc"
                      ELSE "nil"
        IN [err |-> res, published |-> TRUE,
            delivered |-> SelectSeq(replies, HandlerPasses),
            ctr |-> Len(failed) + (IF res = "rpc" THEN 1 ELSE 0)]

\* rpcDo counting the refusal of the pause gate as an RPC error
rpcDoCountsPause(isPaused, ddlOk, clientOk, doErr, replies) ==
    IF isPaused THEN
        [err |-> "paused", published |-> FALSE, delivered |-> <<>>, ctr |-> 1]
    ELSE rpcDoUngated(isPaused, ddlOk, clientOk, doErr, replies)

\* rpcDo: the error it returns, whether the request went to the fabric, the
\* replies handed to cb, and how often rpc_errors was incremented
rpcDo(isPaused, ddlOk, clientOk, doErr, replies) ==
    IF isPaused THEN
        [err |-> "paused", published |-> FALSE, delivered |-> <<>>, ctr |-> 0]
    ELSE IF ~ddlOk THEN
        [err |-> "rpc", published |-> FALSE, delivered |-> <<>>, ctr |-> 0]
    ELSE IF ~clientOk THEN
        [err |-> "rpc", published |-> FALSE, delivered |-> <<>>, ctr |-> 1]
    ELSE
        LET failed == SelectSeq(replies, LAMBDA r : r.status # OK)
            res    == IF doErr # "none" THEN "rpc"
                      ELSE IF WrongCount(Len(replies)) THEN "rpc"
                      ELSE "nil"
        IN [err |-> res, published |-> TRUE,
            delivered |-> SelectSeq(replies, HandlerPasses),
            ctr |-> Len(failed) + (IF res = "rpc" THEN 1 ELSE 0)]


\* ------------------------------------------------------------ request data
\* a restart request that leaves the splay to the node's default
RestartRequestNoSplay == [token |-> token, splay |-> 0]

\* provision.RestartRequest built by Host.restart
RestartRequest == [token |-> token, splay |-> RestartSplay]

\* provision.CSRRequest built by Host.fetchCSR
CSRRequest == [token |-> token, cn |-> Identity]

\* provision.JWTRequest built by Host.fetchJWT
JWTRequest == [token |-> token]

\* a configure request that never names the SSL directory
ConfigureRequestNoSSLDir(h) ==
    [token |-> token, ca |-> h.ca, certificate |-> h.cert,
     configuration |-> JsonMarshal(h.config), ssldir |-> ""]

\* provision.ConfigureRequest built by Host.configure
ConfigureRequest(h) ==
    [token |-> token, ca |-> h.ca, certificate |-> h.cert,
     configuration |-> JsonMarshal(h.config),
     ssldir |-> IF h.CSR.set THEN h.CSR.ssldir ELSE ""]

Request(agent, action, input) ==
    [agent |-> agent, action |-> action, input |-> input]

\* -------------------------------------------------------------- callbacks
\* the reply callback each step passes to rpcDo, applied to the record
Callback(action, h, r) ==
    CASE action = "inventory" -> [h EXCEPT !.Metadata = r.raw]
      [] action = "jwt" ->
           IF r.valid THEN [h EXCEPT !.rawJWT = r.jwt] ELSE h
      [] action = "gencsr" ->
           IF r.valid
           THEN [h EXCEPT !.CSR = [set |-> TRUE, csr |-> r.csr, ssldir |-> r.ssldir]]
           ELSE [h EXCEPT !.CSR = [set |-> TRUE, csr |-> "", ssldir |-> ""]]
      [] OTHER -> h

RECURSIVE ApplyCallbacks(_, _, _)
ApplyCallbacks(action, h, rs) ==
    IF rs = <<>> THEN h
    ELSE ApplyCallbacks(action, Callback(action, h, Head(rs)), Tail(rs))

\* ---------------------------------------------------------------- the node
\* most restart goroutines waiting for the mutex at once
MaxPending == 1

\* tokens a request to the node can carry
ReqTokens == {"", "t", "x"}

\* mcorpc status of a reply whose request data could not be parsed
InvalidData == "InvalidData"

ConfigFilePath == "/etc/choria/server.conf"
\* the configuration key that turns provisioning mode on
ProvisionKey == "plugin.choria.server.provision"
\* a setting value the configuration parser rejects
BadValue == "!"

\* filepath.Join(filepath.Dir(ConfigFile), "ssl"), or Choria.SSLDir if set
SSLDirOf(cfg) ==
    IF cfg.SSLDir # "" THEN cfg.SSLDir
    ELSE IF cfg.ConfigFile = "" THEN "ssl" ELSE "/etc/choria/ssl"

\* agent.Config of a server process
AgentConfig(cf, ssl, log, reg) ==
    [ConfigFile |-> cf, SSLDir |-> ssl, LogFile |-> log,
     FileContentRegistrationData |-> reg]

AgentConfigs ==
    {AgentConfig("", "", "", ""), AgentConfig("", "/ssl", "", ""),
     AgentConfig(ConfigFilePath, "", "", ""),
     AgentConfig(ConfigFilePath, "", "/var/log/choria.log", "/etc/choria/reg.json")}

\* settings of a configuration file: map[string]string
Setting(k, v) == [x \in {k} |-> v]
NoSettings == <<>>

\* a file at the configuration path: absent, or holding settings
NoFile == [exists |-> FALSE, settings |-> NoSettings]
File(m) == [exists |-> TRUE, settings |-> m]

\* config.NewConfig(path): whether the file can be read and parsed
Parses(f) ==
    f.exists /\ \A k \in DOMAIN f.settings : f.settings[k] # BadValue

\* a parser that never finds provisioning enabled
ProvisionIgnored(f) == FALSE

\* cfg.Choria.Provision of a parsed configuration
Provision(f) ==
    ProvisionKey \in DOMAIN f.settings
    /\ f.settings[ProvisionKey] \in {"1", "true"}

\* what can be at the configuration path when the server starts
StartFiles ==
    {NoFile, File(NoSettings), File(Setting(ProvisionKey, "1")),
     File(Setting(ProvisionKey, "0")), File(Setting("loglevel", BadValue))}

NoReq == [action |-> "", parsed |-> FALSE, token |-> ""]
NoReply == [status |-> "", msg |-> "", csr |-> "", ssldir |-> "", n |-> 0]
\* the mcorpc.Reply a handler is given
NewReply == [NoReply EXCEPT !.status = OK]

\* handler goroutines the fabric's connector runs at once
HandlerIds == {"h1", "h2"}
Free == ""
RestartRoutine == "restart"

\* no request is being served and nobody holds the mutex
LockIdle ==
    /\ mu = Free
    /\ handlers = [h \in HandlerIds |-> [at |-> "idle", action |-> ""]]
    /\ exec = "none"

NodeIdle ==
    /\ LockIdle
    /\ ProvisionToken = ""
    /\ ProvisionMode = TRUE
    /\ Config = AgentConfig(ConfigFilePath, "", "", "")
    /\ disk = [config |-> NoFile]
    /\ pending = 0
    /\ req = NoReq
    /\ reply = NoReply
    /\ wrote = <<>>
    /\ started = <<>>
    /\ events = <<>>

\* ----------------------------------------------------------------- the pool
Workers == {"w1", "w2"}
Identities == {"n1", "n2", "n3"}
Idle == ""

\* capacity of the work channel
QueueCap == 2

NoEnqueue == [id |-> Idle, added |-> FALSE]

PoolIdle ==
    /\ inflight = {}
    /\ work = <<>>
    /\ running = [w \in Workers |-> Idle]
    /\ enqueued = NoEnqueue

\* ------------------------------------------------- the attempt's sequence
Terminal == {"done", "failed", "deferred"}

\* the stage after the JWT step, or after the inventory step of a node that
\* has no JWT support
AfterJWT == IF features.pki THEN "csr" ELSE "helper"

\* where the attempt goes when a step returns; whether the node's build
\* supports JWT is the node's property
NextStage(step, err) ==
    IF err # "nil" THEN {"failed"}
    ELSE CASE step = "inventory" -> {"jwt", AfterJWT}
           [] step = "jwt" -> {AfterJWT}
           [] step = "csr" -> {"helper"}
           [] step = "configure" -> {"restart"}
           [] step = "restart" -> {"done"}

FreshHost ==
    [Metadata |-> "", rawJWT |-> "", CSR |-> NoCSR,
     config |-> <<>>, ca |-> "", cert |-> ""]

NoCall ==
    [name |-> "", paused |-> FALSE, replies |-> <<>>,
     err |-> "nil", published |-> FALSE, delivered |-> <<>>, ctr |-> 0]

Init ==
    /\ paused = FALSE
    /\ cancelled = FALSE
    /\ token \in Tokens
    /\ features \in [pki : BOOLEAN]
    /\ host = FreshHost
    /\ pc = "inventory"
    /\ try = 1
    /\ sent = <<>>
    /\ stepGate = "none"
    /\ lastStep = "none"
    /\ stepErr = "nil"
    /\ invOk = FALSE
    /\ call = NoCall
    /\ NodeIdle
    /\ PoolIdle

\* a step returns err to the attempt, leaving the record as h; the record
\* of an attempt that ends is discarded
Return(step, err, h) ==
    /\ lastStep' = step
    /\ stepErr' = err
    /\ pc' \in NextStage(step, err)
    /\ host' = IF pc' \in Terminal THEN FreshHost ELSE h
    /\ invOk' = (invOk \/ (step = "inventory" /\ err = "nil"))

\* the gate as the step has seen it after one more rpcDo call
Gate(g, isPaused) == IF g = "open" \/ ~isPaused THEN "open" ELSE "paused"

\* the environment's part of one rpcDo call: the outcome of the DDL cache
\* lookup, of the client constructor and of prov.Do (its error, the replies
\* its handler saw, and whether the context was cancelled while it waited).
\* A call that is never reached has one outcome; a request that fails in
\* transport collects at most one reply, one whose context is or gets
\* cancelled collects none.
Env(ddlOk, clientOk, doErr, replies, cancelMid) ==
    [ddlOk |-> ddlOk, clientOk |-> clientOk, doErr |-> doErr,
     replies |-> replies, cancelMid |-> cancelMid]

Envs(action) ==
    IF paused THEN {Env(TRUE, TRUE, "none", <<>>, FALSE)}
    ELSE {Env(FALSE, TRUE, "none", <<>>, FALSE),
          Env(TRUE, FALSE, "none", <<>>, FALSE)}
         \cup {Env(TRUE, TRUE, "transport", rs, FALSE) :
                 rs \in IF cancelled THEN {<<>>}
                        ELSE {<<>>} \cup {<<r>> : r \in ReplySet(action)}}
         \cup {Env(TRUE, TRUE, "none", rs, FALSE) :
                 rs \in IF cancelled THEN {<<>>} ELSE ReplySeqs(action)}
         \cup {Env(TRUE, TRUE, d, <<>>, TRUE) : d \in DoErrs}

\* the record after the callbacks of a call with outcome e
After(action, e) ==
    ApplyCallbacks(action, host,
                   rpcDo(paused, e.ddlOk, e.clientOk, e.doErr, e.replies).delivered)

\* what rpcDo returns in the current state under outcome e
Res(e) == rpcDo(paused, e.ddlOk, e.clientOk, e.doErr, e.replies)

\* sender and status of each reply in rs, as the observation keeps them
Envelopes(rs) ==
    [i \in 1..Len(rs) |-> [sender |-> rs[i].sender, status |-> rs[i].status]]

\* one rpcDo call made by a step that has published the requests in sofar
\* and seen the gate as g
Call(agent, action, input, e, sofar, g) ==
    LET res == Res(e)
    IN /\ call' = [name |-> action, paused |-> paused,
                   replies |-> Envelopes(e.replies), err |-> res.err,
                   published |-> res.published,
                   delivered |-> Envelopes(res.delivered), ctr |-> res.ctr]
       /\ sent' = IF res.published
                  THEN Append(sofar, Request(agent, action, input)) ELSE sofar
       /\ stepGate' = Gate(g, paused)
       /\ cancelled' = (cancelled \/ e.cancelMid)

\* ------------------------------------------------------------------ steps
\* a loop that allows one try more
InventoryRetryOneMore(t) == t + 1 <= MaxTries + 1

\* the loop condition of Host.fetchInventory after try t failed
InventoryRetry(t) == t + 1 <= MaxTries

\* the loop condition of Host.fetchJWT after try t failed
JWTRetry(t) == t + 1 <= MaxTries

\* a step that takes any record after a successful call
EmptyJWTAccepted(h) == FALSE

\* the check of len(h.rawJWT) after a call of Host.fetchJWT that succeeded
EmptyJWT(h) == Len(h.rawJWT) = 0

\* a step that asks the node whatever the record holds
HasInventoryNever(h) == FALSE

\* the test of len(h.Metadata) at the head of Host.fetchInventory
HasInventory(h) == Len(h.Metadata) > 0

\* Host.fetchInventory up to its loop
fetchInventory ==
    /\ pc = "inventory"
    /\ sent' = <<>> /\ stepGate' = "none" /\ call' = NoCall
    /\ try' = 1
    /\ IF HasInventory(host)
       THEN Return("inventory", "nil", host)
       ELSE /\ pc' = "inventory_loop"
            /\ UNCHANGED <<host, lastStep, stepErr, invOk>>
    /\ UNCHANGED <<paused, cancelled, token, features>>
    /\ UNCHANGED <<nodeVars, poolVars, lockVars>>

\* one iteration of the loop of Host.fetchInventory
fetchInventoryTry ==
    /\ pc = "inventory_loop"
    /\ IF cancelled
       THEN /\ Return("inventory", "ctx", host)
            /\ UNCHANGED <<cancelled, try, sent, stepGate, call>>
       ELSE \E e \in Envs("inventory") :
            /\ Call("rpcutil", "inventory", <<>>, e, sent, stepGate)
            /\ IF Res(e).err = "nil"
               THEN Return("inventory", "nil", After("inventory", e))
                    /\ UNCHANGED try
               ELSE IF InventoryRetry(try)
               THEN /\ try' = try + 1
                    /\ host' = After("inventory", e)
                    /\ UNCHANGED <<pc, lastStep, stepErr, invOk>>
               ELSE Return("inventory", Res(e).err, After("inventory", e))
                    /\ UNCHANGED try
    /\ UNCHANGED <<paused, token, features>>
    /\ UNCHANGED <<nodeVars, poolVars, lockVars>>

\* Host.fetchJWT up to its loop
fetchJWT ==
    /\ pc = "jwt"
    /\ sent' = <<>> /\ stepGate' = "none" /\ call' = NoCall
    /\ try' = 1
    /\ IF host.rawJWT # ""
       THEN Return("jwt", "nil", host)
       ELSE /\ pc' = "jwt_loop"
            /\ UNCHANGED <<host, lastStep, stepErr, invOk>>
    /\ UNCHANGED <<paused, cancelled, token, features>>
    /\ UNCHANGED <<nodeVars, poolVars, lockVars>>

\* one iteration of the loop of Host.fetchJWT
fetchJWTTry ==
    /\ pc = "jwt_loop"
    /\ IF cancelled
       THEN /\ Return("jwt", "ctx", host)
            /\ UNCHANGED <<cancelled, try, sent, stepGate, call>>
       ELSE \E e \in Envs("jwt") :
            /\ Call("choria_provision", "jwt", JWTRequest, e, sent, stepGate)
            /\ IF Res(e).err = "nil"
               THEN /\ IF EmptyJWT(After("jwt", e))
                       THEN Return("jwt", "emptyjwt", After("jwt", e))
                       ELSE Return("jwt", "nil", After("jwt", e))
                    /\ UNCHANGED try
               ELSE IF JWTRetry(try)
               THEN /\ try' = try + 1
                    /\ host' = After("jwt", e)
                    /\ UNCHANGED <<pc, lastStep, stepErr, invOk>>
               ELSE Return("jwt", Res(e).err, After("jwt", e))
                    /\ UNCHANGED try
    /\ UNCHANGED <<paused, token, features>>
    /\ UNCHANGED <<nodeVars, poolVars, lockVars>>

\* a step that sends whatever configuration the record holds
EmptyConfigSent(h) == FALSE

\* the test of len(h.config) at the head of Host.configure
EmptyConfig(h) == DOMAIN h.config = {}

\* Host.fetchCSR
fetchCSR ==
    /\ pc = "csr"
    /\ \E e \in Envs("gencsr") :
        /\ Call("choria_provision", "gencsr", CSRRequest, e, <<>>, "none")
        /\ Return("csr", Res(e).err, After("gencsr", e))
    /\ UNCHANGED <<paused, token, features, try>>
    /\ UNCHANGED <<nodeVars, poolVars, lockVars>>

\* Host.configure
configure ==
    /\ pc = "configure"
    /\ IF EmptyConfig(host)
       THEN /\ Return("configure", "emptyconfig", host)
            /\ sent' = <<>> /\ stepGate' = "none" /\ call' = NoCall
            /\ UNCHANGED cancelled
       ELSE \E e \in Envs("configure") :
            /\ Call("choria_provision", "configure", ConfigureRequest(host), e,
                    <<>>, "none")
            /\ Return("configure", Res(e).err, After("configure", e))
    /\ UNCHANGED <<paused, token, features, try>>
    /\ UNCHANGED <<nodeVars, poolVars, lockVars>>

\* Host.restart
restart ==
    /\ pc = "restart"
    /\ \E e \in Envs("restart") :
        /\ Call("choria_provision", "restart", RestartRequest, e, <<>>, "none")
        /\ Return("restart", Res(e).err, After("restart", e))
    /\ UNCHANGED <<paused, token, features, try>>
    /\ UNCHANGED <<nodeVars, poolVars, lockVars>>

\* a driver that configures the node although the helper deferred it
AfterDeferConfigure == "configure"

\* where the attempt goes when the helper's output has defer = true
AfterDefer == "deferred"

\* the helper step: refused while paused, else the helper fails, defers, or
\* returns a configuration with an optional certificate and CA
RunHelper ==
    /\ pc = "helper"
    /\ sent' = <<>> /\ stepGate' = "none" /\ call' = NoCall
    /\ lastStep' = "helper"
    /\ \/ /\ paused
          /\ stepErr' = "paused" /\ pc' = "failed" /\ host' = FreshHost
       \/ /\ ~paused
          /\ stepErr' = "helper" /\ pc' = "failed" /\ host' = FreshHost
       \/ /\ ~paused
          /\ stepErr' = "defer" /\ pc' = AfterDefer /\ host' = FreshHost
       \/ /\ ~paused
          /\ \E c \in Configs, pki \in {<<"", "">>, <<"C", "A">>} :
                host' = [host EXCEPT !.config = c, !.cert = pki[1], !.ca = pki[2]]
          /\ stepErr' = "nil" /\ pc' = "configure"
    /\ UNCHANGED <<paused, cancelled, token, features, try, invOk>>
    /\ UNCHANGED <<nodeVars, poolVars, lockVars>>

\* the worker picks the identity up again with a fresh record and context
NewAttempt ==
    /\ pc \in Terminal
    /\ pc' = "inventory"
    /\ host' = FreshHost
    /\ cancelled' = FALSE
    /\ sent' = <<>>
    /\ invOk' = FALSE
    /\ try' = 1
    /\ stepGate' = "none"
    /\ lastStep' = "none" /\ stepErr' = "nil"
    /\ call' = NoCall
    /\ UNCHANGED <<paused, token, features>>
    /\ UNCHANGED <<nodeVars, poolVars, lockVars>>

\* the backplane pauses or resumes the provisioner
Pause ==
    /\ paused' = ~paused
    /\ UNCHANGED <<cancelled, token, features, host, pc, try, sent, stepGate,
                   lastStep, stepErr, invOk, call>>
    /\ UNCHANGED <<nodeVars, poolVars, lockVars>>

\* the attempt's context is cancelled
Cancel ==
    /\ pc \notin Terminal
    /\ ~cancelled
    /\ cancelled' = TRUE
    /\ UNCHANGED <<paused, token, features, host, pc, try, sent, stepGate,
                   lastStep, stepErr, invOk, call>>
    /\ UNCHANGED <<nodeVars, poolVars, lockVars>>

Next ==
    \/ fetchInventory
    \/ fetchInventoryTry
    \/ fetchJWT
    \/ fetchJWTTry
    \/ fetchCSR
    \/ configure
    \/ restart
    \/ RunHelper
    \/ NewAttempt
    \/ Pause
    \/ Cancel

Spec == Init /\ [][Next]_vars

\* --------------------------------------- the fetch steps on any record
\* fetchInventory and fetchJWT applied to a record that may already hold
\* inventory or a JWT, with the gate and the context in any state
Records ==
    {[FreshHost EXCEPT !.Metadata = m, !.rawJWT = j] :
        m \in {"", "old"}, j \in {"", "old"}}

InitFetch ==
    /\ paused \in BOOLEAN
    /\ cancelled \in BOOLEAN
    /\ token = "t"
    /\ features = [pki |-> FALSE]
    /\ host \in Records
    /\ pc \in {"inventory", "jwt"}
    /\ try = 1
    /\ sent = <<>>
    /\ stepGate = "none"
    /\ lastStep = "none"
    /\ stepErr = "nil"
    /\ invOk = FALSE
    /\ call = NoCall
    /\ NodeIdle
    /\ PoolIdle

NextFetch ==
    \/ fetchInventory
    \/ fetchInventoryTry
    \/ fetchJWT
    \/ fetchJWTTry
    \/ Pause
    \/ Cancel

SpecFetch == InitFetch /\ [][NextFetch]_vars

\* ------------------------------------------------------ the node's agent
\* One request is handled at a time: every handler holds the package mutex
\* from entry to return, and so does the restart routine while it sleeps
\* and execs.  Each handler is given as the set of its outcomes: the reply,
\* the configuration file, the files written, the restart goroutines
\* started and the lifecycle events published.
Shutdown == "shutdown"
Provisioned == "provisioned"

\* time.Duration(2 * time.Second), the splay releaseUpdateAction passes on
TwoSeconds == 2000000000

\* the default of RestartRequest.Splay and the bound of reprovision's splay
DefaultSplay == 10

\* build.ProvisionRegistrationData
ProvisionRegistrationData == ""

Out(rep, d, w, gos, evs) ==
    [reply |-> rep, disk |-> d, wrote |-> w, started |-> gos, events |-> evs]

\* the handler returns with rep and has touched nothing
Refused(rep) == {Out(rep, disk, <<>>, <<>>, <<>>)}

abort(msg, rep) == [rep EXCEPT !.status = Aborted, !.msg = msg]

\* mcorpc.ParseRequestData failing on the request's data
BadRequest(rep) == [rep EXCEPT !.status = InvalidData, !.msg = "parse"]

IncorrectToken == "Incorrect provision token supplied"

\* a node that compares tokens even when none is compiled in
TokenRequiredAlways == TRUE

\* whether the build has a token to compare with (build.ProvisionToken != "")
TokenRequired == ProvisionToken # ""

\* a token check that lets every token pass
checkTokenAny(tok, rep) == [ok |-> TRUE, reply |-> rep]

\* checkToken: whether the token passes, and the reply
checkToken(tok, rep) ==
    IF ~TokenRequired THEN [ok |-> TRUE, reply |-> rep]
    ELSE IF tok # ProvisionToken
    THEN [ok |-> FALSE, reply |-> abort(IncorrectToken, rep)]
    ELSE [ok |-> TRUE, reply |-> rep]

\* an event source that cannot fail
PublishedAlways(e) == {<<e>>}

\* ServerInfoSource.NewEvent: a failure to publish is only logged
Published(e) == {<<e>>, <<>>}

\* the file config.NewConfig(agent.Config.ConfigFile) opens
ConfigOnDisk == IF Config.ConfigFile = "" THEN NoFile ELSE disk.config

\* json.Unmarshal of the request's configuration into map[string]string
\* (a text is its tokens: braces around the members)
Decodes(text) ==
    /\ Len(text) >= 2
    /\ text[1] = <<"{">> /\ text[Len(text)] = <<"}">>
    /\ \A i \in 2..(Len(text) - 1) : Len(text[i]) = 2

Decoded(text) ==
    LET ms == SubSeq(text, 2, Len(text) - 1)
    IN [k \in {ms[i][1] : i \in 1..Len(ms)} |->
          LET i == CHOOSE j \in 1..Len(ms) :
                      ms[j][1] = k /\ \A l \in 1..Len(ms) : ms[l][1] = k => l <= j
          IN ms[i][2]]

Text(members) == <<<<"{">>>> \o members \o <<<<"}">>>>

\* configuration strings a configure request can carry
ConfigTexts ==
    {<<>>, <<<<"{">>>>, Text(<<>>),
     Text(<<<<ProvisionKey, "0">>>>),
     Text(<<<<ProvisionKey, "1">>>>),
     Text(<<<<"loglevel", BadValue>>>>)}

\* one entry of the write log: the file and what it holds now
Wrote(dir, name, content) ==
    << [dir |-> dir, name |-> name, content |-> content] >>

\* ioutil.WriteFile: the file holds the content, or the write fails and
\* leaves the file as it was or truncated
Written(dir, name, content) == Wrote(dir, name, content)
FailedWrite(dir, name) == {<<>>, Wrote(dir, name, "")}

\* where writeConfig can fail for reasons of the file system
WriteConfigFails == {"none", "evalsymlinks", "tempfile", "write", "close", "rename"}

\* a writeConfig that renames the temporary file before it parses it
writeConfigRenamesFirst(settings, cfile, fail) ==
    IF cfile.exists /\ fail = "evalsymlinks"
    THEN [err |-> "evalsymlinks", written |-> 0, config |-> cfile]
    ELSE IF fail \in {"tempfile", "write", "close", "rename"}
    THEN [err |-> fail, written |-> 0, config |-> cfile]
    ELSE IF ~Parses(File(settings))
    THEN [err |-> "parse", written |-> 0, config |-> File(settings)]
    ELSE [err |-> "nil", written |-> 1 + Cardinality(DOMAIN settings),
          config |-> File(settings)]

\* writeConfig: its error, the lines written, the file at the target
writeConfig(settings, cfile, fail) ==
    IF cfile.exists /\ fail = "evalsymlinks"
    THEN [err |-> "evalsymlinks", written |-> 0, config |-> cfile]
    ELSE IF fail \in {"tempfile", "write", "close"}
    THEN [err |-> fail, written |-> 0, config |-> cfile]
    ELSE IF ~Parses(File(settings))
    THEN [err |-> "parse", written |-> 0, config |-> cfile]
    ELSE IF fail = "rename"
    THEN [err |-> "rename", written |-> 0, config |-> cfile]
    ELSE [err |-> "nil", written |-> 1 + Cardinality(DOMAIN settings),
          config |-> File(settings)]

\* the log entry of a writeConfig that replaced the configuration file
WroteConfig == Wrote("", Config.ConfigFile, "config")

\* a node that takes itself to be provisioning whatever its mode
ProvisioningAlways == TRUE

\* agent.Choria.ProvisionMode() as csrAction and configureAction read it
Provisioning == ProvisionMode

\* csrAction
csrAction(r) ==
    IF ~Provisioning
    THEN Refused(abort("Cannot reconfigure a server that is not in provisioning mode", NewReply))
    ELSE IF Config.ConfigFile = "" /\ Config.SSLDir = ""
    THEN Refused(abort("Cannot determine where to store SSL data", NewReply))
    ELSE IF ~r.parsed THEN Refused(BadRequest(NewReply))
    ELSE IF ~checkToken(r.token, NewReply).ok
    THEN Refused(checkToken(r.token, NewReply).reply)
    ELSE
      LET ssldir == SSLDirOf(Config)
          key == Written(ssldir, "private.pem", "key")
      IN \* MkdirAll, asn1.Marshal or rsa.GenerateKey fails
         Refused(abort("Could not create SSL Directory", NewReply))
         \cup Refused(abort("Could not create CSR", NewReply))
         \cup Refused(abort("Could not create private key", NewReply))
         \cup {Out(abort("Could not store private key", NewReply),
                   disk, w, <<>>, <<>>) :
                 w \in FailedWrite(ssldir, "private.pem")}
         \cup {Out(abort("Could not create CSR bytes", NewReply),
                   disk, key, <<>>, <<>>)}
         \cup {Out(abort("Could not store CSR", NewReply),
                   disk, key \o w, <<>>, <<>>) :
                 w \in FailedWrite(ssldir, "csr.pem")}
         \cup {Out([NewReply EXCEPT !.csr = "csr", !.ssldir = ssldir],
                   disk, key \o Written(ssldir, "csr.pem", "csr"), <<>>, <<>>)}

\* settings that leave provisioning off
ReprovisionSettingsOff ==
    Setting(ProvisionKey, "0") @@ Setting("loglevel", "debug")

\* the settings reprovisionAction writes
ReprovisionSettings ==
    Setting(ProvisionKey, "1") @@ Setting("loglevel", "debug")
    @@ (IF Config.LogFile # "" THEN Setting("logfile", Config.LogFile)
        ELSE NoSettings)
    @@ (IF ProvisionRegistrationData = "" /\ Config.FileContentRegistrationData # ""
        THEN Setting("registration", "file_content")
             @@ Setting("plugin.choria.registration.file_content.data",
                        Config.FileContentRegistrationData)
        ELSE NoSettings)

\* reprovisionAction
reprovisionAction(r) ==
    IF ProvisionMode
    THEN Refused(abort("Server is already in provisioning mode", NewReply))
    ELSE IF Config.ConfigFile = ""
    THEN Refused(abort("Cannot determine the configuration file to manage", NewReply))
    ELSE IF ~r.parsed THEN Refused(BadRequest(NewReply))
    ELSE IF ~checkToken(r.token, NewReply).ok
    THEN Refused(checkToken(r.token, NewReply).reply)
    ELSE UNION {
      LET w == writeConfig(ReprovisionSettings, disk.config, f)
      IN IF w.err # "nil"
         THEN Refused(abort("Could not write config", NewReply))
         ELSE {Out([NewReply EXCEPT !.n = splay],
                   [disk EXCEPT !.config = w.config], WroteConfig,
                   <<splay>>, evs) :
                 splay \in 2..(DefaultSplay + 1), evs \in Published(Shutdown)}
      : f \in WriteConfigFails}

\* a test that does not ask for the SSL directory
HasPKIAnyDir(r) == r.certificate # "" /\ r.ca # ""

\* the test configureAction makes before it writes certificate.pem and ca.pem
HasPKI(r) == r.certificate # "" /\ r.ssldir # "" /\ r.ca # ""

\* configureAction
configureAction(r) ==
    IF ~Provisioning
    THEN Refused(abort("Cannot reconfigure a server that is not in provisioning mode", NewReply))
    ELSE IF Config.ConfigFile = ""
    THEN Refused(abort("Cannot determine the configuration file to manage", NewReply))
    ELSE IF ~r.parsed THEN Refused(BadRequest(NewReply))
    ELSE IF ~checkToken(r.token, NewReply).ok
    THEN Refused(checkToken(r.token, NewReply).reply)
    ELSE IF Len(r.config) = 0
    THEN Refused(abort("Did not receive any configuration to write", NewReply))
    ELSE IF ~Decodes(r.config)
    THEN Refused(abort("Could not decode configuration data", NewReply))
    ELSE UNION {
      LET w == writeConfig(Decoded(r.config), disk.config, f)
          d == [disk EXCEPT !.config = w.config]
          cert == Written(r.ssldir, "certificate.pem", r.certificate)
          ca == Written(r.ssldir, "ca.pem", r.ca)
          done(files) ==
              {Out([NewReply EXCEPT !.n = w.written], d, WroteConfig \o files,
                   <<>>, evs) : evs \in Published(Provisioned)}
      IN IF w.err # "nil"
         THEN Refused(abort("Could not write config", NewReply))
         ELSE IF HasPKI(r)
         THEN {Out(abort("Could not write Certificate", NewReply),
                   d, WroteConfig \o x, <<>>, <<>>) :
                 x \in FailedWrite(r.ssldir, "certificate.pem")}
              \cup {Out(abort("Could not write CA", NewReply),
                        d, WroteConfig \o cert \o x, <<>>, <<>>) :
                      x \in FailedWrite(r.ssldir, "ca.pem")}
              \cup done(cert \o ca)
         ELSE done(<<>>)
      : f \in WriteConfigFails}

\* a generator that can return its bound
IntnInclusive(n) == 0..n

\* mrand.Intn(n): a number in [0, n)
Intn(n) == 0..(n - 1)

\* time.Sleep(splay * time.Second) in restart: the seconds the routine
\* sleeps are splay's count of Duration units
SleepSeconds(splay) == splay

\* a node that restarts on request in any mode
RestartAllowedAlways == TRUE

\* the first test of restartAction: the node provisions or has a token
RestartAllowed == ProvisionMode \/ ProvisionToken # ""

\* restartAction
restartAction(r) ==
    IF ~RestartAllowed
    THEN Refused(abort("Cannot restart a server that is not in provisioning mode or with no token set", NewReply))
    ELSE IF ~r.parsed THEN Refused(BadRequest(NewReply))
    ELSE IF ~checkToken(r.token, NewReply).ok
    THEN Refused(checkToken(r.token, NewReply).reply)
    ELSE IF ~Parses(ConfigOnDisk)
    THEN Refused(abort("Configuration could not be parsed, restart cannot continue", NewReply))
    ELSE IF Provision(ConfigOnDisk)
    THEN Refused(abort("Configuration enables provisioning, restart cannot continue", NewReply))
    ELSE LET Splay == IF r.splay = 0 THEN DefaultSplay ELSE r.splay
         IN {Out([NewReply EXCEPT !.n = splay], disk, <<>>, <<splay>>, evs) :
               splay \in {i + 2 : i \in Intn(Splay)}, evs \in Published(Shutdown)}

\* releaseUpdateAction; the updater applies the release, or fails and rolls
\* back, or fails and cannot roll back
releaseUpdateAction(r) ==
    IF ~r.parsed THEN Refused(BadRequest(NewReply))
    ELSE IF ~checkToken(r.token, NewReply).ok
    THEN Refused(checkToken(r.token, NewReply).reply)
    ELSE {Out(abort("Update failed, rollback also failed, server in broken state", NewReply),
              disk, Wrote("", "choria", "broken"), <<>>, <<>>),
          Out(abort("Update failed, release rolled back", NewReply),
              disk, <<>>, <<>>, <<>>)}
         \cup {Out([NewReply EXCEPT !.n = 2], disk,
                   Wrote("", "choria", r.version), <<TwoSeconds>>, evs) :
                 evs \in Published(Shutdown)}

\* --------------------------------------------------- requests to the node
AgentRequest(action, tok) ==
    [action |-> action, parsed |-> TRUE, token |-> tok, splay |-> 0,
     config |-> <<>>, certificate |-> "", ca |-> "", ssldir |-> "",
     version |-> ""]

\* a request whose data does not decode into the action's request type
Unparsed(action) == [AgentRequest(action, "") EXCEPT !.parsed = FALSE]

Actions == {"gencsr", "configure", "restart", "reprovision", "release_update"}

Requests(action) ==
    {Unparsed(action)} \cup
    CASE action = "configure" ->
           {[AgentRequest(action, t) EXCEPT !.config = c, !.certificate = pki[1],
                                            !.ca = pki[2], !.ssldir = pki[3]] :
              t \in ReqTokens, c \in ConfigTexts,
              pki \in {<<"", "", "">>, <<"C", "A", "">>,
                       <<"C", "", SSLDirOf(Config)>>,
                       <<"C", "A", SSLDirOf(Config)>>}}
      [] action = "restart" ->
           {[AgentRequest(action, t) EXCEPT !.splay = s] :
              t \in ReqTokens, s \in {0, 1, 2}}
      [] action = "release_update" ->
           {[AgentRequest(action, t) EXCEPT !.version = "v2"] : t \in ReqTokens}
      [] OTHER -> {AgentRequest(action, t) : t \in ReqTokens}

\* the agent handles one request of the action
\* what of a request the observation keeps
Handled(r) == [action |-> r.action, parsed |-> r.parsed, token |-> r.token]

\* the body of a handler serves request r with outcome o
Effect(r, o) ==
    /\ pending + Len(o.started) <= MaxPending
    /\ req' = Handled(r)
    /\ reply' = o.reply
    /\ disk' = o.disk
    /\ wrote' = o.wrote
    /\ pending' = pending + Len(o.started)
    /\ started' = o.started
    /\ events' = o.events
    /\ UNCHANGED <<ProvisionToken, ProvisionMode, Config, hostVars, poolVars>>

\* the agent handles request r with outcome o, from mu.Lock() to the
\* deferred mu.Unlock()
Handle(r, o) == Effect(r, o) /\ UNCHANGED lockVars

gencsr ==
    \E r \in Requests("gencsr") : \E o \in csrAction(r) : Handle(r, o)

configureRequest ==
    \E r \in Requests("configure") : \E o \in configureAction(r) : Handle(r, o)

restartRequest ==
    \E r \in Requests("restart") : \E o \in restartAction(r) : Handle(r, o)

reprovision ==
    \E r \in Requests("reprovision") : \E o \in reprovisionAction(r) : Handle(r, o)

release_update ==
    \E r \in Requests("release_update") : \E o \in releaseUpdateAction(r) : Handle(r, o)

\* a process in which restarts have been switched off
allowRestartOff == FALSE

\* var allowRestart = true
allowRestart == TRUE

\* the mode of the process started by the exec: the configuration file says
\* whether it provisions; without the setting the build's default decides
ModeAfterExec ==
    IF Parses(ConfigOnDisk) /\ ProvisionKey \in DOMAIN ConfigOnDisk.settings
    THEN {Provision(ConfigOnDisk)} ELSE BOOLEAN

\* one restart goroutine gets the mutex, sleeps and execs the server; a
\* failed exec is logged and the goroutine ends
restartRoutine ==
    /\ pending > 0
    /\ \/ /\ allowRestart
          /\ pending' = 0
          /\ ProvisionMode' \in ModeAfterExec
       \/ /\ pending' = pending - 1
          /\ UNCHANGED ProvisionMode
    /\ req' = NoReq /\ reply' = NoReply
    /\ wrote' = <<>> /\ started' = <<>> /\ events' = <<>>
    /\ UNCHANGED <<ProvisionToken, Config, disk, hostVars, poolVars, lockVars>>

HostIdle ==
    /\ paused = FALSE /\ cancelled = FALSE
    /\ token = "" /\ features = [pki |-> FALSE]
    /\ host = FreshHost /\ pc = "inventory" /\ try = 1
    /\ sent = <<>> /\ stepGate = "none"
    /\ lastStep = "none" /\ stepErr = "nil" /\ invOk = FALSE
    /\ call = NoCall

\* a server process that has just started, with or without a compiled token
InitAgent ==
    /\ HostIdle
    /\ PoolIdle
    /\ LockIdle
    /\ ProvisionToken \in {"", "t"}
    /\ ProvisionMode \in BOOLEAN
    /\ Config \in AgentConfigs
    /\ disk \in [config : IF Config.ConfigFile = "" THEN {NoFile} ELSE StartFiles]
    /\ pending = 0
    /\ req = NoReq
    /\ reply = NoReply
    /\ wrote = <<>>
    /\ started = <<>>
    /\ events = <<>>

NextAgent ==
    \/ gencsr
    \/ configureRequest
    \/ restartRequest
    \/ reprovision
    \/ release_update
    \/ restartRoutine

SpecAgent == InitAgent /\ [][NextAgent]_vars

\* ------------------------------------------ goroutines and the mutex
\* The same agent with mu.Lock() and the deferred mu.Unlock() as steps of
\* their own: a request is served by a goroutine that blocks in mu.Lock(),
\* then runs the handler's body and unlocks as it returns; a restart
\* goroutine blocks in mu.Lock(), then sleeps and execs with mu held.

\* the action registered under each name
ActionFor(a, r) ==
    CASE a = "gencsr" -> csrAction(r)
      [] a = "configure" -> configureAction(r)
      [] a = "restart" -> restartAction(r)
      [] a = "reprovision" -> reprovisionAction(r)
      [] a = "release_update" -> releaseUpdateAction(r)

At(h, where, a) == [handlers EXCEPT ![h] = [at |-> where, action |-> a]]

\* a body that starts without the mutex
AcquirableAlways(g) == TRUE

\* sync.Mutex: Lock returns for g only while nobody holds mu
Acquirable(g) == mu = Free

\* the step is not the body of a handler: it serves no request
NoRequest ==
    /\ req' = NoReq /\ reply' = NoReply
    /\ wrote' = <<>> /\ started' = <<>> /\ events' = <<>>
    /\ UNCHANGED <<ProvisionToken, Config, disk>>

\* a request for one of the actions arrives and its goroutine calls mu.Lock()
Arrive ==
    \E h \in HandlerIds, a \in Actions :
        /\ handlers[h].at = "idle"
        /\ handlers' = At(h, "blocked", a)
        /\ exec' = "none"
        /\ NoRequest
        /\ UNCHANGED <<mu, ProvisionMode, pending, hostVars, poolVars>>

\* mu.Lock() returns in handler h
LockBy(h) ==
    /\ handlers[h].at = "blocked"
    /\ Acquirable(h)
    /\ mu' = h
    /\ handlers' = At(h, "body", handlers[h].action)
    /\ exec' = "none"
    /\ NoRequest
    /\ UNCHANGED <<ProvisionMode, pending, hostVars, poolVars>>

Lock == \E h \in HandlerIds : LockBy(h)

\* the body of the handler runs and its deferred mu.Unlock() releases mu
Serve ==
    \E h \in HandlerIds :
        /\ handlers[h].at = "body"
        /\ \E r \in Requests(handlers[h].action) :
             \E o \in ActionFor(handlers[h].action, r) : Effect(r, o)
        /\ mu' = Free
        /\ handlers' = At(h, "idle", "")
        /\ exec' = "none"

\* mu.Lock() returns in a restart goroutine, which goes to sleep
restartLock ==
    /\ pending > 0
    /\ allowRestart
    /\ Acquirable(RestartRoutine)
    /\ mu' = RestartRoutine
    /\ pending' = pending - 1
    /\ exec' = "none"
    /\ NoRequest
    /\ UNCHANGED <<ProvisionMode, handlers, hostVars, poolVars>>

\* the sleep is over: syscall.Exec replaces the process and every goroutine
\* with it, or fails, is logged, and the deferred mu.Unlock() runs
restartExec ==
    /\ mu = RestartRoutine
    /\ mu' = Free
    /\ \/ /\ exec' = "done"
          /\ handlers' = [h \in HandlerIds |-> [at |-> "idle", action |-> ""]]
          /\ pending' = 0
          /\ ProvisionMode' \in ModeAfterExec
       \/ /\ exec' = "failed"
          /\ UNCHANGED <<handlers, pending, ProvisionMode>>
    /\ NoRequest
    /\ UNCHANGED <<hostVars, poolVars>>

\* a server process that has just started
InitMutex ==
    /\ HostIdle
    /\ PoolIdle
    /\ LockIdle
    /\ ProvisionToken = ""
    /\ ProvisionMode \in BOOLEAN
    /\ Config = AgentConfig(ConfigFilePath, "", "", "")
    /\ disk = [config |-> File(Setting(ProvisionKey, "0"))]
    /\ pending = 0
    /\ req = NoReq
    /\ reply = NoReply
    /\ wrote = <<>>
    /\ started = <<>>
    /\ events = <<>>

NextMutex ==
    \/ Arrive
    \/ Lock
    \/ Serve
    \/ restartLock
    \/ restartExec

\* a goroutine that holds mu runs on; sync.Mutex hands mu to a goroutine
\* that keeps waiting (starvation mode), so a blocked Lock returns if mu is
\* free again and again
FairMutex ==
    /\ WF_vars(Serve)
    /\ WF_vars(restartExec)
    /\ SF_vars(restartLock)
    /\ \A h \in HandlerIds : SF_vars(LockBy(h))

SpecMutex == InitMutex /\ [][NextMutex]_vars /\ FairMutex

\* ------------------------------------- configuration from host to node
\* the configure request of Host.configure as the node's agent decodes it:
\* the configuration travels as the JSON text of the map
OnWire(input) ==
    [AgentRequest("configure", input.token) EXCEPT
        !.config = Text(input.configuration),
        !.certificate = input.certificate, !.ca = input.ca,
        !.ssldir = input.ssldir]

\* the node handles the configure request the orchestrator has published
configureDelivered ==
    /\ sent # <<>>
    /\ sent[Len(sent)].action = "configure"
    /\ \E o \in configureAction(OnWire(sent[Len(sent)].input)) :
          Handle(OnWire(sent[Len(sent)].input), o)

\* an attempt that has reached the helper step, with or without a CSR
AtHelper ==
    /\ paused \in BOOLEAN
    /\ cancelled = FALSE
    /\ token = ""
    /\ features \in [pki : BOOLEAN]
    /\ host \in {[FreshHost EXCEPT !.Metadata = "inv", !.CSR = c] :
                    c \in IF features.pki
                          THEN {[set |-> TRUE, csr |-> "CSR", ssldir |-> "/ssl"]}
                          ELSE {NoCSR}}
    /\ pc = "helper"
    /\ try = 1
    /\ sent = <<>>
    /\ stepGate = "none"
    /\ lastStep = "none"
    /\ stepErr = "nil"
    /\ invOk = TRUE
    /\ call = NoCall

\* the orchestrator's side: the helper has answered and the node's agent
\* handles what the configure step publishes
InitDeliver == AtHelper /\ NodeIdle /\ PoolIdle

NextDeliver ==
    \/ RunHelper
    \/ configure
    \/ configureDelivered

SpecDeliver == InitDeliver /\ [][NextDeliver]_vars

\* an attempt about to configure the node, the helper having returned a
\* configuration that is empty or not
AtConfigure ==
    /\ paused \in BOOLEAN
    /\ cancelled = FALSE
    /\ token = ""
    /\ features = [pki |-> FALSE]
    /\ host \in {[FreshHost EXCEPT !.Metadata = "inv", !.config = c] :
                    c \in {NoSettings, Setting("identity", "n1.final")}}
    /\ pc = "configure"
    /\ try = 1
    /\ sent = <<>>
    /\ stepGate = "none"
    /\ lastStep = "helper"
    /\ stepErr = "nil"
    /\ invOk = TRUE
    /\ call = NoCall

\* the configure step of the orchestrator next to a node that waits in
\* provisioning mode, or a node in any state; configure requests reach the
\* node from anyone
InitConfigure ==
    \/ AtConfigure /\ NodeIdle /\ PoolIdle
    \/ InitAgent

NextConfigure ==
    \/ configure
    \/ configureRequest

SpecConfigure == InitConfigure /\ [][NextConfigure]_vars

\* ------------------------------------------- the work queue and its workers
\* an enqueue function that never finds the identity in flight
InFlightNever(i) == FALSE

\* the enqueue function's look at the in-flight set
InFlight(i) == i \in inflight

\* a discovery cycle or an event emits identity i: dropped if it is in
\* flight or the channel is full, else added to the set and the channel;
\* nothing is emitted while paused
Enqueue ==
    /\ ~paused
    /\ \E i \in Identities :
        IF InFlight(i) \/ Len(work) >= QueueCap
        THEN /\ enqueued' = [id |-> i, added |-> FALSE]
             /\ UNCHANGED <<inflight, work>>
        ELSE /\ enqueued' = [id |-> i, added |-> TRUE]
             /\ inflight' = inflight \cup {i}
             /\ work' = Append(work, i)
    /\ UNCHANGED <<running, hostVars, nodeVars, lockVars>>

\* a free worker takes an identity off the channel, marks it in flight and
\* starts the state machine for it; workers take nothing while paused
Dequeue ==
    /\ ~paused
    /\ work # <<>>
    /\ \E w \in Workers :
        /\ running[w] = Idle
        /\ running' = [running EXCEPT ![w] = Head(work)]
        /\ inflight' = inflight \cup {Head(work)}
    /\ work' = Tail(work)
    /\ UNCHANGED <<enqueued, hostVars, nodeVars, lockVars>>

\* a worker's state machine reaches a terminal state: the identity leaves
\* the in-flight set
Finish ==
    /\ \E w \in Workers :
        /\ running[w] # Idle
        /\ running' = [running EXCEPT ![w] = Idle]
        /\ inflight' = inflight \ {running[w]}
    /\ UNCHANGED <<work, enqueued, hostVars, nodeVars, lockVars>>

InitPool == HostIdle /\ NodeIdle /\ PoolIdle

NextPool ==
    \/ Enqueue
    \/ Dequeue
    \/ Finish
    \/ Pause

SpecPool == InitPool /\ [][NextPool]_vars

\* ------------------------------------------------------------ properties
Loops == {"inventory_loop", "jwt_loop"}

\* the step has returned and no later step has been entered: sent, stepGate,
\* try and call are those of its invocation
Returned(step) == lastStep = step /\ pc \notin Loops

\* an rpcDo call has been made and call describes it
Called == call.name # ""

TargetOK(r) == r.sender = Identity /\ r.status = OK

\* C1: a call that finds the gate paused when rpcDo is entered returns an
\* error and publishes nothing, whatever the action; a step all of whose
\* calls found the gate paused has failed and has sent no request
C1_PausedCallRefused ==
    /\ (Called /\ call.paused) => (call.err # "nil" /\ ~call.published)
    /\ \A step \in {"inventory", "jwt", "csr", "configure", "restart"} :
          (Returned(step) /\ stepGate = "paused") =>
              (stepErr # "nil" /\ sent = <<>>)

\* a retrying step has used all its tries with the gate paused and failed
C1_Witness ==
    /\ Returned("inventory") /\ stepGate = "paused" /\ try = MaxTries
    /\ call.paused /\ call.name = "inventory" /\ stepErr = "paused"

\* C2: a call whose single reply, sent by the target, is not OK returns an
\* error
C2_NonOKReplyIsError ==
    (Called /\ call.published /\ Len(call.replies) = 1
        /\ call.replies[1].sender = Identity /\ call.replies[1].status # OK)
    => call.err # "nil"

\* C3: a call that reached the fabric returns an error when the number of
\* responses is not one, and a call returns nil only with exactly one
C3_ExactlyOneResponse ==
    Called =>
        /\ (call.published /\ Len(call.replies) # 1) => call.err # "nil"
        /\ call.err = "nil" => (call.published /\ Len(call.replies) = 1)

\* two responses arrived and the call failed
C3_Witness ==
    Called /\ call.published /\ Len(call.replies) = 2 /\ call.err = "rpc"

\* C4: the callback runs exactly for the OK replies of the target, and a
\* call without such a reply leaves the record as it was
C4_Delivered ==
    /\ \A i \in DOMAIN call.delivered : TargetOK(call.delivered[i])
    /\ Len(call.delivered) = Len(SelectSeq(call.replies, TargetOK))

C4_RecordKept ==
    (/\ pc \in Loops \cup {"csr", "configure", "restart"}
     /\ host' # host
     /\ pc' \notin Terminal)
    => \E i \in DOMAIN call'.replies : TargetOK(call'.replies[i])

C4_OtherSenderIgnored == []C4_Delivered /\ [][C4_RecordKept]_vars

\* the only response to the inventory request came from another node with
\* status OK: the call succeeded and the record has no inventory
C4_Witness ==
    /\ Called /\ call.name = "inventory" /\ Len(call.replies) = 1
    /\ call.replies[1].sender = OtherSender /\ call.replies[1].status = OK
    /\ call.delivered = <<>> /\ host.Metadata = "" /\ pc = "jwt"

\* the requests a step has sent all name this agent and action
AllSentAre(agent, action) ==
    \A i \in DOMAIN sent : sent[i].agent = agent /\ sent[i].action = action

\* C5 as stated: fetchInventory sends at most 5 rpcutil#inventory requests,
\* returns nil as soon as a call succeeds, and returns an error only after
\* 5 failed tries, that of the fifth
C5_ErrorOnlyAfterFiveTries ==
    Returned("inventory") =>
        /\ Len(sent) <= MaxTries
        /\ AllSentAre("rpcutil", "inventory")
        /\ stepErr = "nil" => (call.err = "nil" /\ try <= MaxTries)
        /\ stepErr # "nil" =>
              (try = MaxTries /\ call.name = "inventory" /\ stepErr = call.err)

\* C5 amended: an error is that of the fifth failed try, or the context's
\* error when the context is found cancelled before a try
C5_AtMostFiveTries ==
    Returned("inventory") =>
        /\ Len(sent) <= MaxTries
        /\ AllSentAre("rpcutil", "inventory")
        /\ stepErr = "nil" => (call.err = "nil" /\ try <= MaxTries)
        /\ stepErr # "nil" =>
              \/ stepErr = "ctx" /\ cancelled /\ Len(sent) < try
              \/ /\ try = MaxTries /\ call.name = "inventory"
                 /\ stepErr = call.err /\ stepErr # "ctx"

\* five requests were sent, none succeeded, and the step failed with the
\* error of the last one
C5_Witness ==
    /\ Returned("inventory") /\ Len(sent) = MaxTries /\ try = MaxTries
    /\ stepErr = "rpc" /\ call.err = "rpc"

\* C6: a retrying step that fails while its context is cancelled returns
\* the context's error, never that of a call
C6_CancelledReturnsCtxError ==
    \A step \in {"inventory", "jwt"} :
        (Returned(step) /\ cancelled /\ stepErr # "nil") => stepErr = "ctx"

\* C7: when fetchCSR has returned nil the record holds a CSR with a
\* non-empty csr and a non-empty ssldir
C7_CSRComplete ==
    (Returned("csr") /\ stepErr = "nil") =>
        (host.CSR.set /\ host.CSR.csr # "" /\ host.CSR.ssldir # "")

\* C8: when a configure request has been sent, fetchInventory returned nil
\* earlier in the attempt and the record holds the node's inventory
C8_InventoryBeforeConfigure ==
    (Returned("configure") /\ sent # <<>> /\ pc = "restart") =>
        (invOk /\ host.Metadata # "")

\* the members of a JSON object c are those of the map m, in key order
EncodesMap(c, m) ==
    /\ Len(c) = Cardinality(DOMAIN m)
    /\ \A i \in DOMAIN c : c[i][1] \in DOMAIN m /\ c[i][2] = m[c[i][1]]
    /\ \A i, j \in DOMAIN c : i < j => KeyRank[c[i][1]] < KeyRank[c[j][1]]

\* C9: the request configure sends carries the token, the record's ca and
\* certificate, its configuration map JSON-encoded, and as ssldir that of
\* the CSR reply if there is one and nothing otherwise
C9_ConfigureStep ==
    (pc = "configure" /\ sent' # <<>>) =>
        /\ Len(sent') = 1
        /\ sent'[1].agent = "choria_provision" /\ sent'[1].action = "configure"
        /\ DOMAIN sent'[1].input =
              {"token", "ca", "certificate", "configuration", "ssldir"}
        /\ sent'[1].input.token = token
        /\ sent'[1].input.ca = host.ca
        /\ sent'[1].input.certificate = host.cert
        /\ EncodesMap(sent'[1].input.configuration, host.config)
        /\ JsonUnmarshal(sent'[1].input.configuration) = host.config
        /\ host.CSR.set => sent'[1].input.ssldir = host.CSR.ssldir
        /\ ~host.CSR.set => sent'[1].input.ssldir = ""

C9_ConfigureRequest == [][C9_ConfigureStep]_vars

\* configure succeeded with a two-key configuration, a certificate, a CA
\* and the SSL directory of the CSR reply
C9_Witness ==
    /\ Returned("configure") /\ pc = "restart" /\ Len(sent) = 1
    /\ Len(sent[1].input.configuration) = 2
    /\ sent[1].input.certificate = "C" /\ sent[1].input.ca = "A"
    /\ sent[1].input.ssldir = "/ssl" /\ sent[1].input.token = "t"

\* C10: gencsr, configure and restart make at most one call and return its
\* error; restart asks for splay 1 and gencsr for cn = the node identity
C10_SingleShot ==
    /\ \A step \in {"csr", "configure", "restart"} :
          Returned(step) =>
              /\ Len(sent) <= 1
              /\ stepGate # "none" => stepErr = call.err
              /\ (stepGate = "none") = (step = "configure" /\ stepErr = "emptyconfig")
    /\ Returned("restart") =>
          /\ AllSentAre("choria_provision", "restart")
          /\ \A i \in DOMAIN sent : sent[i].input.splay = 1
          /\ call.name = "restart"
    /\ Returned("csr") =>
          /\ AllSentAre("choria_provision", "gencsr")
          /\ \A i \in DOMAIN sent : sent[i].input.cn = Identity
          /\ call.name = "gencsr"

\* the restart request was sent once, failed, and the step returned the
\* failure
C10_Witness ==
    /\ Returned("restart") /\ Len(sent) = 1 /\ sent[1].input.splay = 1
    /\ stepErr = "rpc" /\ pc = "failed"

\* a request to the node that carries a token other than the compiled one
WrongToken(q) ==
    /\ q.action \in Actions /\ q.parsed
    /\ ProvisionToken # "" /\ q.token # ProvisionToken

C11_Refused ==
    WrongToken(req) =>
        /\ reply.status = Aborted
        /\ wrote = <<>> /\ started = <<>> /\ events = <<>>

C11_Kept == WrongToken(req') => disk' = disk /\ pending' = pending

\* C11: with a provisioning token compiled in, a request of any action that
\* carries a different token is answered Aborted and has no effect: no file
\* is written (configuration, key, CSR, certificate, binary), the
\* configuration file is as before, no restart goroutine is started and no
\* lifecycle event is published
C11_WrongTokenNoEffect == []C11_Refused /\ [][C11_Kept]_vars

C11_Witness ==
    /\ WrongToken(req) /\ req.action = "configure" /\ ProvisionMode
    /\ Config.ConfigFile # "" /\ reply.msg = IncorrectToken

\* C12: with no token compiled in, checkToken passes every token, empty or
\* not, leaving the reply alone, and no request of any action is answered
\* with the token refusal
C12_NoTokenAcceptsAll ==
    ProvisionToken = "" =>
        /\ \A t \in ReqTokens :
              checkToken(t, NewReply) = [ok |-> TRUE, reply |-> NewReply]
        /\ reply.msg # IncorrectToken

C12_Witness ==
    /\ ProvisionToken = "" /\ req.action = "configure" /\ req.token = "x"
    /\ reply.status = OK /\ wrote # <<>>

\* C13: a restart request to a node that is not in provisioning mode is
\* accepted (answered OK, a restart goroutine started) only if a token is
\* compiled in and the request carries it; with no compiled token it is
\* answered Aborted and starts no restart goroutine
C13_RestartOutsideProvisioning ==
    req.action = "restart" /\ ~ProvisionMode =>
        /\ reply.status = OK \/ started # <<>> =>
              ProvisionToken # "" /\ req.token = ProvisionToken
        /\ ProvisionToken = "" => reply.status = Aborted /\ started = <<>>

C13_Witness ==
    /\ req.action = "restart" /\ ~ProvisionMode
    /\ ProvisionToken # "" /\ req.token = ProvisionToken
    /\ reply.status = OK /\ started # <<>>

\* the configuration file of the node is missing or has a setting that the
\* parser rejects
Unparseable ==
    \/ Config.ConfigFile = "" \/ ~disk.config.exists
    \/ \E k \in DOMAIN disk.config.settings : disk.config.settings[k] = BadValue

\* the configuration file of the node turns provisioning on
StillProvisions ==
    /\ Config.ConfigFile # "" /\ disk.config.exists
    /\ ProvisionKey \in DOMAIN disk.config.settings
    /\ disk.config.settings[ProvisionKey] \in {"1", "true"}

C15_Refused ==
    req.action = "reprovision" /\ (ProvisionMode \/ Config.ConfigFile = "") =>
        reply.status = Aborted /\ wrote = <<>> /\ started = <<>>

C15_Kept ==
    req'.action = "reprovision" /\ (ProvisionMode \/ Config.ConfigFile = "") =>
        disk' = disk /\ pending' = pending

C15_Accepted ==
    req.action = "reprovision" /\ reply.status = OK =>
        /\ Parses(disk.config)
        /\ ProvisionKey \in DOMAIN disk.config.settings
        /\ disk.config.settings[ProvisionKey] = "1"
        /\ Len(started) = 1 /\ pending > 0

\* C15: a reprovision request to a node that is in provisioning mode or has
\* no configuration file is answered Aborted, leaves the configuration file
\* as it was and starts no restart goroutine; one that is answered OK has
\* replaced the configuration file by one that sets
\* plugin.choria.server.provision to 1 and has started a restart goroutine
C15_Reprovision == [](C15_Refused /\ C15_Accepted) /\ [][C15_Kept]_vars

C15_Witness ==
    /\ req.action = "reprovision" /\ reply.status = OK
    /\ Provision(disk.config) /\ pending > 0

C16_DeferStops ==
    lastStep = "helper" /\ stepErr = "defer" => pc = "deferred" /\ sent = <<>>

C16_NoLaterStep == pc = "deferred" => pc' \in {"deferred", "inventory"}

\* C16: an attempt whose helper output has defer = true ends there: the
\* attempt is in its deferred terminal stage, the helper step has sent no
\* request, no configure or restart step follows, and the next step for the
\* node is the inventory step of a new attempt
C16_DeferredNotConfigured == []C16_DeferStops /\ [][C16_NoLaterStep]_vars

C16_Witness ==
    pc = "deferred" /\ lastStep = "helper" /\ stepErr = "defer" /\ invOk

\* the attempts queued for identity i, and those queued or running
Queued(i) == Cardinality({k \in 1..Len(work) : work[k] = i})
Attempts(i) == Queued(i) + Cardinality({w \in Workers : running[w] = i})

C17_OneAttempt ==
    \A i \in Identities :
        /\ Cardinality({w \in Workers : running[w] = i}) <= 1
        /\ Attempts(i) = IF i \in inflight THEN 1 ELSE 0

C17_Dropped ==
    \A i \in inflight :
        /\ Queued(i)' <= Queued(i)
        /\ enqueued' # enqueued /\ enqueued'.id = i => ~enqueued'.added

C17_Eligible ==
    \A w \in Workers :
        running[w] # Idle /\ running'[w] = Idle => running[w] \notin inflight'

\* C17: at most one worker runs the state machine for an identity at any
\* time; an identity emitted again while its attempt is queued or running
\* is dropped, so that one attempt exists for it; when the attempt ends the
\* identity has left the in-flight set and can be enqueued again
C17_NoOverlap ==
    []C17_OneAttempt /\ [][C17_Dropped /\ C17_Eligible]_vars

C17_Witness ==
    /\ \E w \in Workers : running[w] = enqueued.id
    /\ enqueued.id # Idle /\ ~enqueued.added
    /\ Len(work) < QueueCap

\* C18: a call refused by the pause gate is not counted as an RPC error:
\* whenever rpcDo returns the paused error, that call has incremented
\* rpc_errors not once, and only a call that found the gate closed returns
\* the paused error.
C18_PauseNotCounted ==
    (Called /\ call.err = "paused") =>
        (call.paused /\ call.ctr = 0 /\ ~call.published)

\* a step has been refused by the gate on each of its tries of the JWT call
C18_Witness ==
    /\ Called /\ call.name = "jwt" /\ call.err = "paused" /\ call.ctr = 0
    /\ Returned("jwt") /\ stepErr = "paused"

\* C20: fetchJWT issues at most 5 choria_provision#jwt requests and stops
\* at the first call that succeeds: while it loops no call has succeeded
\* and fewer requests than tries are out; a call that succeeds ends the
\* step at once, with success or with 'received an empty JWT', whatever
\* tries remain; and the step never returns success with an empty JWT.
C20_FetchJWT ==
    /\ pc = "jwt_loop" =>
          /\ try <= MaxTries /\ Len(sent) <= try - 1
          /\ Called => (call.name = "jwt" /\ call.err # "nil")
    /\ Returned("jwt") =>
          /\ try <= MaxTries /\ Len(sent) <= try
          /\ \A i \in DOMAIN sent :
                sent[i].agent = "choria_provision" /\ sent[i].action = "jwt"
          /\ (Called /\ call.err = "nil") => stepErr \in {"nil", "emptyjwt"}
          /\ stepErr = "emptyjwt" => (Called /\ call.err = "nil")
          /\ stepErr = "nil" => host.rawJWT # ""

\* the second try succeeds and leaves the JWT empty: the step fails at once
C20_Witness ==
    /\ Returned("jwt") /\ stepErr = "emptyjwt" /\ try = 2 /\ Len(sent) = 2
    /\ call.name = "jwt" /\ call.err = "nil" /\ pc = "failed"

\* C19: on every failure path of a fabric call other than the refusal of
\* the pause gate (agent DDL not found, client creation failure, transport
\* error, non-OK reply, response count other than one) rpcDo increments
\* rpc_errors before it returns.
C19_FailureCounted ==
    (Called /\ ~call.paused /\ call.err # "nil") => call.ctr >= 1

\* C21: fetchInventory and fetchJWT are idempotent on a record that is
\* already populated: entered with inventory (a JWT) in the record, the
\* step returns success, has sent no request and made no call, and leaves
\* the stored inventory and JWT as they were, whatever the gate and the
\* context are.
C21_Shortcut ==
    /\ (pc = "inventory" /\ host.Metadata # "" /\ pc' # pc) =>
          /\ lastStep' = "inventory" /\ stepErr' = "nil"
          /\ pc' \in {"jwt", "csr", "helper"}
          /\ sent' = <<>> /\ call' = NoCall /\ host' = host
    /\ (pc = "jwt" /\ host.rawJWT # "" /\ pc' # pc) =>
          /\ lastStep' = "jwt" /\ stepErr' = "nil"
          /\ pc' \in {"csr", "helper"}
          /\ sent' = <<>> /\ call' = NoCall /\ host' = host

C21_Idempotent == [][C21_Shortcut]_vars

\* both steps have taken the shortcut on a populated record while the
\* provisioner is paused and the context cancelled
C21_Witness ==
    /\ paused /\ cancelled /\ Returned("jwt") /\ stepErr = "nil" /\ invOk
    /\ sent = <<>> /\ call = NoCall
    /\ host.Metadata = "old" /\ host.rawJWT = "old"

\* C22: an empty configuration is never written.  The configure step of
\* the orchestrator, entered with an empty configuration map, fails with
\* 'empty configuration' and has sent no request and made no call, so no
\* configure request carries an empty configuration; and the configure
\* action of the node answers every request it could parse whose
\* configuration string is empty with Aborted, writes nothing and leaves
\* the configuration file as it is.
NothingToWrite == "Did not receive any configuration to write"

C22_HostStep ==
    (pc = "configure" /\ DOMAIN host.config = {} /\ pc' # pc) =>
        /\ lastStep' = "configure" /\ stepErr' = "emptyconfig" /\ pc' = "failed"
        /\ sent' = <<>> /\ call' = NoCall

C22_Sent ==
    \A i \in DOMAIN sent :
        sent[i].action = "configure" => sent[i].input.configuration # <<>>

C22_NodeAction ==
    \A r \in Requests("configure") :
        (r.parsed /\ Len(r.config) = 0) =>
            \A o \in configureAction(r) :
                /\ o.reply.status = Aborted
                /\ o.disk = disk /\ o.wrote = <<>> /\ o.events = <<>>

C22_Replied ==
    reply.msg = NothingToWrite =>
        (req.action = "configure" /\ reply.status = Aborted /\ wrote = <<>>)

C22_Kept == reply'.msg = NothingToWrite => disk' = disk

NotProvisioning == "Cannot reconfigure a server that is not in provisioning mode"

C23_Refused ==
    (req.action \in {"gencsr", "configure"} /\ ~ProvisionMode) =>
        /\ reply.status = Aborted /\ reply.msg = NotProvisioning
        /\ wrote = <<>> /\ events = <<>> /\ started = <<>>

C23_Kept ==
    (req'.action \in {"gencsr", "configure"} /\ ~ProvisionMode') =>
        disk' = disk

C23_RefusedOutsideProvisioning == []C23_Refused /\ [][C23_Kept]_vars

\* a gencsr request that does not parse, refused for the mode all the same
C23_Witness ==
    /\ req.action = "gencsr" /\ ~req.parsed /\ ~ProvisionMode
    /\ reply.status = Aborted /\ reply.msg = NotProvisioning
    /\ Config.ConfigFile # "" /\ disk.config.exists

\* C24: writeConfig replaces the configuration file only as its last step
\* and only with a result that parses: whatever settings it is given and
\* wherever it fails, an error leaves the configuration file with the
\* content it had, and success means the settings parsed and are now the
\* file's content; a handler that reports 'Could not write config' has
\* left the file alone, and a file that changed parses.
CouldNotWrite == "Could not write config"

C24_Settings ==
    {Decoded(c) : c \in {t \in ConfigTexts : Decodes(t)}} \cup {ReprovisionSettings}

C24_Function ==
    \A st \in C24_Settings, f \in WriteConfigFails :
        LET w == writeConfig(st, disk.config, f)
        IN /\ w.err # "nil" => (w.config = disk.config /\ w.written = 0)
           /\ w.err = "nil" =>
                 /\ Parses(File(st)) /\ w.config = File(st)
                 /\ w.written = 1 + Cardinality(DOMAIN st)
                 /\ f = "none" \/ (f = "evalsymlinks" /\ ~disk.config.exists)

C24_Step ==
    /\ reply'.msg = CouldNotWrite => disk' = disk
    /\ disk' # disk =>
          /\ Parses(disk'.config)
          /\ wrote' # <<>> /\ wrote'[1].name = Config.ConfigFile

C24_AtomicReplace == []C24_Function /\ [][C24_Step]_vars

\* configure has failed in writeConfig over a file that was there, and
\* the file still has its settings
C24_Witness ==
    /\ req.action = "configure" /\ reply.status = Aborted
    /\ reply.msg = CouldNotWrite /\ wrote = <<>>
    /\ disk.config = File(Setting(ProvisionKey, "1"))

\* C25: if the configure action replies Aborted the node is as it was
\* before the request: the step has changed neither the configuration
\* file nor certificate.pem nor ca.pem.
C25_AbortedUnchanged ==
    (req.action = "configure" /\ reply.status = Aborted) => wrote = <<>>

\* C26: the configure action publishes the Provisioned event only after
\* the configuration file has been replaced and, when certificate, ca and
\* ssldir are all given, certificate.pem and ca.pem have been written in
\* full; a configure that replies Aborted publishes no event; and the
\* event failing to be published leaves the same successful reply and
\* the same files.
C26_Outcomes ==
    \A r \in Requests("configure") : \A o \in configureAction(r) :
        /\ o.reply.status # OK => o.events = <<>>
        /\ o.events # <<>> =>
              /\ o.events = <<Provisioned>>
              /\ o.wrote =
                    WroteConfig \o
                    (IF r.certificate # "" /\ r.ssldir # "" /\ r.ca # ""
                     THEN Wrote(r.ssldir, "certificate.pem", r.certificate)
                          \o Wrote(r.ssldir, "ca.pem", r.ca)
                     ELSE <<>>)
              /\ Out(o.reply, o.disk, o.wrote, <<>>, <<>>) \in configureAction(r)

C26_Observed ==
    /\ (req.action = "configure" /\ reply.status = Aborted) => events = <<>>
    /\ Provisioned \in {events[i] : i \in DOMAIN events} =>
          /\ req.action = "configure" /\ reply.status = OK
          /\ wrote # <<>> /\ wrote[1].name = Config.ConfigFile
          /\ \A i \in DOMAIN wrote : wrote[i].content # ""

C26_ProvisionedEvent == C26_Outcomes /\ C26_Observed

\* a configure that wrote the configuration and both PKI files and replied
\* OK although the event could not be published
C26_Witness ==
    /\ req.action = "configure" /\ reply.status = OK /\ events = <<>>
    /\ Len(wrote) = 3 /\ wrote[3].name = "ca.pem" /\ wrote[3].content = "A"

\* C27: the configure action writes certificate.pem and ca.pem if and
\* only if certificate, ca and ssldir are all non-empty in the request:
\* it never writes either file when one of the three is empty and still
\* replies OK once the configuration is written, and an OK reply to a
\* request with all three has written both.  So when the orchestrator
\* has no CSR its configure request has no ssldir, and the certificate
\* and CA the helper returned are not stored on the node.
PKIFiles == {"certificate.pem", "ca.pem"}

Stored(w) == {w[i].name : i \in DOMAIN w} \cap PKIFiles

C27_Outcomes ==
    \A r \in Requests("configure") : \A o \in configureAction(r) :
        LET all == r.certificate # "" /\ r.ca # "" /\ r.ssldir # ""
        IN /\ ~all => Stored(o.wrote) = {}
           /\ (~all /\ o.wrote # <<>>) => o.reply.status = OK
           /\ (all /\ o.reply.status = OK) =>
                 o.wrote = WroteConfig
                           \o Wrote(r.ssldir, "certificate.pem", r.certificate)
                           \o Wrote(r.ssldir, "ca.pem", r.ca)

C27_NoCSR ==
    /\ (pc \in {"helper", "configure", "restart"} /\ ~host.CSR.set) =>
          \A i \in DOMAIN sent : sent[i].input.ssldir = ""
    /\ (req.action = "configure" /\ sent # <<>>
            /\ sent[Len(sent)].input.ssldir = "") => Stored(wrote) = {}

C27_CertificateAndCA == C27_Outcomes /\ C27_NoCSR

\* no CSR was fetched, the helper returned a certificate and a CA, and the
\* node has configured itself from the request without storing them
C27_Witness ==
    /\ pc = "restart" /\ ~host.CSR.set /\ host.cert = "C" /\ host.ca = "A"
    /\ Len(sent) = 1 /\ sent[1].input.certificate = "C"
    /\ sent[1].input.ca = "A" /\ sent[1].input.ssldir = ""
    /\ req.action = "configure" /\ reply.status = OK /\ wrote = WroteConfig

\* C28: the handlers of the five actions and the sleep-then-exec section
\* of the restart routine are serialised by the one mutex: at any instant
\* at most one of them is executing, and it is the holder of mu; and no
\* interleaving of requests deadlocks: a handler blocked in mu.Lock()
\* eventually runs its body, unless the process re-execs first.
Executing ==
    {h \in HandlerIds : handlers[h].at = "body"}
    \cup (IF mu = RestartRoutine THEN {RestartRoutine} ELSE {})

C28_OneAtATime ==
    /\ Cardinality(Executing) <= 1
    /\ \A g \in Executing : mu = g

C28_Acquires ==
    \A h \in HandlerIds :
        (handlers[h].at = "blocked") ~> (handlers[h].at = "body" \/ exec = "done")

C28_Serialised == []C28_OneAtATime /\ C28_Acquires

\* one handler runs its body while the other handler and a restart
\* goroutine wait for the mutex
C28_Witness ==
    /\ handlers["h1"].at = "body" /\ handlers["h1"].action = "configure"
    /\ handlers["h2"].at = "blocked" /\ pending > 0 /\ mu = "h1"

\* C29: once a restart, reprovision or release_update action has replied
\* with success, so that its restart goroutine waits for the mutex or
\* sleeps with it, no step changes the configuration file or writes a file
\* of the SSL directory before the process re-execs.
C29_Frozen ==
    (pending > 0 \/ mu = RestartRoutine) => (disk' = disk /\ wrote' = <<>>)

C29_NoChangeBeforeExec == [][C29_Frozen]_vars

\* C30: every restart, reprovision or release_update request that replies
\* with success is eventually followed by a re-exec of the server process,
\* whatever other requests arrive and compete for the mutex, provided no
\* exec fails; a restart goroutine is started only by a step of one of
\* these three actions that replies OK, so a request that replies Aborted
\* leads to no re-exec, and the process re-execs only from the restart
\* routine.
Restarting == {"restart", "reprovision", "release_update"}

C30_Aborted == reply.status # OK => started = <<>>

C30_Started ==
    /\ pending' > pending =>
          /\ req'.action \in Restarting /\ reply'.status = OK
          /\ pending' = pending + Len(started') /\ Len(started') = 1
    /\ mu' = RestartRoutine => (mu = RestartRoutine \/ pending > 0)
    /\ exec' = "done" => mu = RestartRoutine

C30_Followed == [](exec # "failed") => ((pending > 0) ~> (exec = "done"))

C30_RestartFollows ==
    /\ []C30_Aborted
    /\ [][C30_Started]_vars
    /\ C30_Followed

\* reprovision has replied with success and its restart goroutine waits
\* for the mutex together with the handler of another request
C30_Witness ==
    /\ req.action = "reprovision" /\ reply.status = OK /\ pending = 1
    /\ started # <<>> /\ handlers["h2"].at = "blocked" /\ mu = Free

\* C31: the delay the restart action chooses is, in whole seconds, in
\* [2, Splay + 1] for a requested Splay of at least 1 and in [2, 11] for
\* a requested Splay of 0; for the Splay of 1 the orchestrator sends it is
\* exactly 2; and the delay the reply reports is the delay the restart
\* routine sleeps.
C31_Delays ==
    \A r \in Requests("restart") : \A o \in restartAction(r) :
        o.started # <<>> =>
            LET d == SleepSeconds(o.started[1])
            IN /\ Len(o.started) = 1 /\ o.reply.n = d
               /\ r.splay >= 1 => d \in 2..(r.splay + 1)
               /\ r.splay = 0 => d \in 2..11
               /\ r.splay = RestartRequest.splay => d = 2

C31_Observed ==
    (req.action = "restart" /\ reply.status = OK) =>
        /\ Len(started) = 1 /\ reply.n = SleepSeconds(started[1])
        /\ reply.n \in 2..11

C31_RestartDelay == C31_Delays /\ C31_Observed /\ RestartRequest.splay = 1

\* a restart without a requested splay has drawn the longest delay
C31_Witness ==
    /\ req.action = "restart" /\ reply.status = OK
    /\ reply.n = 11 /\ started = <<11>> /\ pending = 1

\* C32: a release_update whose updater fails, with or without a rollback,
\* replies Aborted, starts no restart and publishes no shutdown event; a
\* restart is started only by an update that was applied, and that
\* restart comes after 2 seconds.
C32_Failed ==
    (req.action = "release_update" /\ reply.status # OK) =>
        (started = <<>> /\ events = <<>>)

C32_OnlyApplied ==
    (req.action = "release_update" /\ started # <<>>) =>
        /\ reply.status = OK /\ reply.n = 2 /\ Len(started) = 1
        /\ \E i \in DOMAIN wrote :
              wrote[i].name = "choria" /\ wrote[i].content # "broken"

C32_TwoSeconds ==
    (req.action = "release_update" /\ started # <<>>) =>
        SleepSeconds(started[1]) = 2

C32_RestartAfterUpdate == C32_Failed /\ C32_OnlyApplied /\ C32_TwoSeconds

\* C33: after any gencsr requests, successful or aborted, the key in
\* private.pem is the key of the CSR most recently returned to a caller
\* and of csr.pem.  Every gencsr that gets as far as private.pem writes a
\* newly generated key, so the claim holds of a sequence of requests
\* exactly when each request that touches private.pem or csr.pem also
\* returns the CSR made from that key and stores it in csr.pem.
Touched(name) == \E i \in DOMAIN wrote : wrote[i].name = name

C33_Returned ==
    (req.action = "gencsr" /\ reply.status = OK) =>
        /\ reply.csr = "csr"
        /\ wrote = Wrote(SSLDirOf(Config), "private.pem", "key")
                   \o Wrote(SSLDirOf(Config), "csr.pem", "csr")

C33_NotReturned ==
    (req.action = "gencsr" /\ reply.status # OK) =>
        /\ reply.csr = ""
        /\ ~Touched("private.pem") /\ ~Touched("csr.pem")

C33_KeyMatchesLastCSR == C33_Returned /\ C33_NotReturned
====
